---- MODULE Spec2Model ----
(***************************************************************************)
(* Model of cli/js/tests/unit_test_runner.ts: the permission-matrix unit   *)
(* test runner.  The "master" runner spawns one restricted worker process  *)
(* per permission combination and collects its newline-delimited JSON      *)
(* report over a TCP connection; the "threaded" runner does the same with  *)
(* a Worker and its message channel.                                       *)
(*                                                                         *)
(* Conventions:                                                            *)
(*   - an optional value (undefined / a value) is <<>> / <<v>>;            *)
(*   - a Permissions object is the set of the names whose value is true;   *)
(*   - a line on the wire is the message it decodes to, or a record of     *)
(*     kind "malformed" for a line JSON.parse rejects;                     *)
(*   - message.start.tests is kept by its length, the only thing read.     *)
(***************************************************************************)
EXTENDS FiniteSets, Integers, Sequences, TLC

\* ---------------------------------------------------------------- bounds
NumSets == 2        \* permission combinations in the sweep
MaxTests == 1       \* largest test count a message carries
MaxMsgs == 3        \* lines / channel messages one worker sends

\* ------------------------------------------------------------- constants
PERMISSIONS == <<"read", "write", "net", "env", "run", "plugin", "hrtime">>

PermNames == {PERMISSIONS[k] : k \in 1..Len(PERMISSIONS)}

\* capability names in sorted order, used by the rendering
SortedNames == <<"env", "hrtime", "net", "plugin", "read", "run", "write">>

\* the i-th combination of the generator: the first i-1 names are granted
PermsOf(i) == {PERMISSIONS[k] : k \in 1..(IF i - 1 < Len(PERMISSIONS) THEN i - 1 ELSE Len(PERMISSIONS))}

permissionCombinations == [i \in 1..NumSets |-> PermsOf(i)]

\* human-readable rendering of a Permissions object
fmtPerms(perms) == SelectSeq(SortedNames, LAMBDA p : p \in perms)

\* ------------------------------------------------------------- messages
StartMsg(n) == [kind |-> "start", tests |-> n, passed |-> 0, failed |-> 0, ignored |-> 0]

TestStartMsg == [kind |-> "testStart", tests |-> 0, passed |-> 0, failed |-> 0, ignored |-> 0]

TestEndMsg == [kind |-> "testEnd", tests |-> 0, passed |-> 0, failed |-> 0, ignored |-> 0]

EndMsg(p, f, i) == [kind |-> "end", tests |-> 0, passed |-> p, failed |-> f, ignored |-> i]

Malformed == [kind |-> "malformed", tests |-> 0, passed |-> 0, failed |-> 0, ignored |-> 0]

EndMsgs == {EndMsg(p, f, i) : p \in 0..MaxTests, f \in 0..MaxTests, i \in 0..MaxTests}

\* what a worker can put on its report stream (at most MaxTests outcomes)
Messages == {StartMsg(n) : n \in 0..MaxTests} \cup {TestStartMsg, TestEndMsg} \cup {m \in EndMsgs : m.passed + m.failed + m.ignored <= MaxTests}

\* lines readLines can yield: encoded messages and undecodable lines
Lines == Messages \cup {Malformed}

\* ------------------------------------------------------ pure operations
\* strings of the --perms argument: sequences of names and "," separators
RECURSIVE Join(_)
Join(names) == IF names = <<>> THEN <<>> ELSE IF Len(names) = 1 THEN names ELSE <<Head(names), ",">> \o Join(Tail(names))

\* String.prototype.split(","): the empty string yields one empty field,
\* written "" here
RECURSIVE SplitFrom(_, _)
SplitFrom(str, cur) == IF str = <<>> THEN <<cur>> ELSE IF Head(str) = "," THEN <<cur>> \o SplitFrom(Tail(str), "") ELSE SplitFrom(Tail(str), Head(str))

Split(str) == SplitFrom(str, "")

\* Object.keys(perms).filter(name => perms[name] === true).join(",")
PermStr(perms) == Join(SelectSeq(PERMISSIONS, LAMBDA p : p \in perms))

\* workerRunnerMain: perms = [] unless permsStr is non-empty
ParsePermsNoGuard(permsStr) == Split(permsStr)

ParsePerms(permsStr) == IF Len(permsStr) > 0 THEN Split(permsStr) ELSE <<>>

Includes(list, p) == \E k \in 1..Len(list) : list[k] = p

\* dropWorkerPermissions: the names of PERMISSIONS not required
PermsToDropInverted(requiredPermissions) == SelectSeq(PERMISSIONS, LAMBDA p : Includes(requiredPermissions, p))

PermsToDrop(requiredPermissions) == SelectSeq(PERMISSIONS, LAMBDA p : ~Includes(requiredPermissions, p))

\* passed = expectedPassedTests === endMessage.passed + endMessage.ignored
ComputePassedIgnoringIgnored(expected, endMsg) == expected = endMsg.passed

ComputePassed(expected, endMsg) == expected = endMsg.passed + endMsg.ignored

\* the message handling shared by both collectors: record Start or End
RecordStartFirstOnly(message, expected) == IF message.kind = "start" /\ expected = <<>> THEN <<message.tests>> ELSE expected

RecordStart(message, expected) == IF message.kind = "start" THEN <<message.tests>> ELSE expected

RecordEnd(message, endMsg) == IF message.kind # "start" /\ message.kind = "end" THEN <<message>> ELSE endMsg

\* the run's result object
Verdict(perms, expected, endMsg) == [perms |-> perms, passed |-> ComputePassed(expected[1], endMsg[1]), permsStr |-> fmtPerms(perms), endMessage |-> endMsg[1]]

\* testsPassed = testsPassed && testResult.passed, over all results
TestsPassedAny(results) == \E k \in 1..Len(results) : results[k].passed

TestsPassed(results) == \A k \in 1..Len(results) : results[k].passed

\* "Summary for <permsStr>", one line per result in insertion order
SummaryLinesReversed(results) == [k \in 1..Len(results) |-> results[Len(results) + 1 - k].permsStr]

SummaryLines(results) == [k \in 1..Len(results) |-> results[k].permsStr]

\* await workerProcess.status() resolves once the process has exited
StatusResolvedNever(state) == FALSE

StatusResolvedEarly(state) == TRUE

StatusResolved(state) == state = "exited"

\* listener.accept() resolves once a worker has connected
AcceptResolvedEarly(state) == TRUE

AcceptResolved(state) == state = "pending"

\* JSON.parse(line) returns a message unless the line is not valid JSON
DecodesAnything(line) == TRUE

Decodes(line) == line.kind # "malformed"

\* reportToConsole(message): the console shows the message next
ReportNothing(console, message) == console

Report(console, message) == Append(console, message)

\* the two checks made once the stream is over; "none" when both pass
StreamCheckEndFirst(expected, endMsg) == IF endMsg = <<>> THEN "Worker runner didn't report end" ELSE IF expected = <<>> THEN "Worker runner didn't report start" ELSE "none"

StreamCheck(expected, endMsg) == IF expected = <<>> THEN "Worker runner didn't report start" ELSE IF endMsg = <<>> THEN "Worker runner didn't report end" ELSE "none"

\* worker.onmessage terminates the worker and resolves on an End message
TerminatesOnAny(message) == TRUE

TerminatesOn(message) == message.kind # "start" /\ message.kind = "end"

\* what the summary loop prints for one result: "Summary for <permsStr>"
\* and reportToConsole({ end: endMessage })
SummaryBlock(result) == [permsStr |-> result.permsStr, end |-> result.endMessage]

\* the step of workerRunnerMain that follows Deno.connect
AfterConnectSkipDrop == "dropped"

AfterConnect == "dropping"

\* ------------------------------------------------------------- state
VARIABLES
  mode,            \* "master" or "threaded" (command line flag)
  pc,              \* position of the runner
  idx,             \* index of the current permission combination
  listener,        \* "none" / "open" / "closed"
  procState,       \* per run: "none" / "running" / "exited"
  procSuccess,     \* per run: exit status of the worker process
  procWaited,      \* per run: workerProcess.status() has resolved
  procHandle,      \* per run: "none" / "open" / "closed"
  conn,            \* per run: "none" / "pending" / "open" / "closed"
  worker,          \* per run: "none" / "running" / "terminated"
  runPerms,        \* the Permissions of the current run
  permsArg,        \* the --perms argument of the current worker process
  wpc,             \* position of the current worker process
  wperms,          \* the worker's parsed permission list
  toDrop,          \* the worker's remaining permissions to revoke
  held,            \* permissions the current worker process holds
  registeredWith,  \* <<held>> at the time registerUnitTests ran
  wire,            \* lines / channel messages sent and not yet consumed
  peerClosed,      \* the worker's end of the connection is closed
  sent,            \* messages the current worker has sent
  expectedPassedTests,
  endMessage,
  reported,        \* messages passed to reportToConsole in this run
  runLog,          \* "Running tests for: ..." lines
  testResults,     \* the results in insertion order
  summary,         \* "Summary for ..." lines
  error,           \* the error thrown out of the run, "none" if none
  outcome          \* "running" / "passed" / "failed" / "uncaught"

vars == <<mode, pc, idx, listener, procState, procSuccess, procWaited, procHandle, conn, worker, runPerms, permsArg, wpc, wperms, toDrop, held, registeredWith, wire, peerClosed, sent, expectedPassedTests, endMessage, reported, runLog, testResults, summary, error, outcome>>

procVars == <<procState, procSuccess, procWaited, procHandle>>

workerVars == <<runPerms, permsArg, wpc, wperms, toDrop, held, registeredWith>>

collectVars == <<expectedPassedTests, endMessage, reported>>

sweepVars == <<runLog, testResults, summary, outcome>>

Runs == 1..NumSets

Init ==
  /\ mode \in {"master", "threaded"}
  /\ pc = "main"
  /\ idx = 1
  /\ listener = "none"
  /\ procState = [i \in Runs |-> "none"]
  /\ procSuccess = [i \in Runs |-> TRUE]
  /\ procWaited = [i \in Runs |-> FALSE]
  /\ procHandle = [i \in Runs |-> "none"]
  /\ conn = [i \in Runs |-> "none"]
  /\ worker = [i \in Runs |-> "none"]
  /\ runPerms = {}
  /\ permsArg = <<>>
  /\ wpc = "none"
  /\ wperms = <<>>
  /\ toDrop = <<>>
  /\ held = {}
  /\ registeredWith = <<>>
  /\ wire = <<>>
  /\ peerClosed = FALSE
  /\ sent = 0
  /\ expectedPassedTests = <<>>
  /\ endMessage = <<>>
  /\ reported = <<>>
  /\ runLog = <<>>
  /\ testResults = <<>>
  /\ summary = <<>>
  /\ error = "none"
  /\ outcome = "running"

\* an error thrown out of the run is not caught by the runner's loop: it
\* leaves masterRunnerMain / threadedRunnerMain and main() as a rejection
Throw(e) ==
  /\ error' = e
  /\ outcome' = "uncaught"
  /\ pc' = "uncaught"

\* exit code of the runner: Deno.exit(1), or the uncaught rejection of main()
ExitCode == IF outcome = "passed" THEN 0 ELSE 1

\* -------------------------------------------------- the master runner
\* masterRunnerMain up to the loop: Deno.listen(addr)
MasterBegin ==
  /\ pc = "main" /\ mode = "master"
  /\ listener' = "open"
  /\ pc' = "loop"
  /\ UNCHANGED <<mode, idx, procVars, conn, worker, workerVars, wire, peerClosed, sent, collectVars, sweepVars, error>>

\* runTestsForPermissionSet up to "await listener.accept()"
Spawn ==
  /\ pc = "loop" /\ mode = "master" /\ idx <= NumSets
  /\ runPerms' = permissionCombinations[idx]
  /\ runLog' = Append(runLog, fmtPerms(runPerms'))
  /\ procState' = [procState EXCEPT ![idx] = "running"]
  /\ procHandle' = [procHandle EXCEPT ![idx] = "open"]
  /\ permsArg' = PermStr(runPerms')
  /\ wpc' = "init"
  /\ held' = PermNames
  /\ wperms' = <<>> /\ toDrop' = <<>> /\ registeredWith' = <<>>
  /\ wire' = <<>> /\ peerClosed' = FALSE /\ sent' = 0
  /\ expectedPassedTests' = <<>> /\ endMessage' = <<>> /\ reported' = <<>>
  /\ pc' = "accept"
  /\ UNCHANGED <<mode, idx, listener, procSuccess, procWaited, conn, worker, testResults, summary, outcome, error>>

\* listener.accept() resolves with the worker's connection
Accept ==
  /\ pc = "accept" /\ AcceptResolved(conn[idx])
  /\ conn' = [conn EXCEPT ![idx] = "open"]
  /\ pc' = "read"
  /\ UNCHANGED <<mode, idx, listener, procVars, worker, workerVars, wire, peerClosed, sent, collectVars, sweepVars, error>>

\* one iteration of "for await (const line of readLines(conn))"
ReadLine ==
  /\ pc = "read" /\ wire # <<>>
  /\ wire' = Tail(wire)
  /\ IF ~Decodes(Head(wire))
       THEN /\ conn' = [conn EXCEPT ![idx] = "closed"]
            /\ Throw("SyntaxError")
            /\ UNCHANGED collectVars
       ELSE /\ reported' = Report(reported, Head(wire))
            /\ expectedPassedTests' = RecordStart(Head(wire), expectedPassedTests)
            /\ endMessage' = RecordEnd(Head(wire), endMessage)
            /\ UNCHANGED <<conn, pc, error, outcome>>
  /\ UNCHANGED <<mode, idx, listener, procVars, worker, workerVars, peerClosed, sent, runLog, testResults, summary>>

\* the stream ends: finally conn.close(), then the two checks, up to
\* "await workerProcess.status()"
ReadEOF ==
  /\ pc = "read" /\ wire = <<>> /\ peerClosed
  /\ conn' = [conn EXCEPT ![idx] = "closed"]
  /\ IF StreamCheck(expectedPassedTests, endMessage) # "none"
       THEN Throw(StreamCheck(expectedPassedTests, endMessage))
       ELSE pc' = "status" /\ UNCHANGED <<error, outcome>>
  /\ UNCHANGED <<mode, idx, listener, procVars, worker, workerVars, wire, peerClosed, sent, collectVars, runLog, testResults, summary>>

\* workerProcess.status() resolves; the rest of runTestsForPermissionSet
\* and testResults.add(result)
Status ==
  /\ pc = "status" /\ StatusResolved(procState[idx])
  /\ procWaited' = [procWaited EXCEPT ![idx] = TRUE]
  /\ IF ~procSuccess[idx]
       THEN /\ Throw("Worker runner exited with status code")
            /\ UNCHANGED <<procHandle, testResults, idx>>
       ELSE /\ procHandle' = [procHandle EXCEPT ![idx] = "closed"]
            /\ testResults' = Append(testResults, Verdict(runPerms, expectedPassedTests, endMessage))
            /\ idx' = idx + 1
            /\ pc' = "loop"
            /\ UNCHANGED <<error, outcome>>
  /\ UNCHANGED <<mode, listener, procState, procSuccess, conn, worker, workerVars, wire, peerClosed, sent, collectVars, runLog, summary>>

\* after the loop: the summary loop and the final outcome (both runners)
Summarize ==
  /\ pc = "loop" /\ idx > NumSets
  /\ summary' = SummaryLines(testResults)
  /\ outcome' = IF TestsPassed(testResults) THEN "passed" ELSE "failed"
  /\ pc' = "done"
  /\ UNCHANGED <<mode, idx, listener, procVars, conn, worker, workerVars, wire, peerClosed, sent, collectVars, runLog, testResults, error>>

\* -------------------------------------------- the restricted worker process
WorkerAlive == mode = "master" /\ idx <= NumSets /\ procState[idx] = "running" /\ pc \notin {"uncaught", "done"}

\* workerRunnerMain up to "await Deno.connect(addr)"
WorkerConnect ==
  /\ WorkerAlive /\ wpc = "init"
  /\ wperms' = ParsePerms(permsArg)
  /\ conn' = [conn EXCEPT ![idx] = "pending"]
  /\ wpc' = "connected"
  /\ UNCHANGED <<mode, pc, idx, listener, procVars, worker, runPerms, permsArg, toDrop, held, registeredWith, wire, peerClosed, sent, collectVars, sweepVars, error>>

\* dropWorkerPermissions is entered: permsToDrop is computed
WorkerDropBegin ==
  /\ WorkerAlive /\ wpc = "connected"
  /\ toDrop' = PermsToDrop(wperms)
  /\ wpc' = AfterConnect
  /\ UNCHANGED <<mode, pc, idx, listener, procVars, conn, worker, runPerms, permsArg, wperms, held, registeredWith, wire, peerClosed, sent, collectVars, sweepVars, error>>

\* await Deno.permissions.revoke({ name: perm })
WorkerRevoke ==
  /\ WorkerAlive /\ wpc = "dropping" /\ toDrop # <<>>
  /\ held' = held \ {Head(toDrop)}
  /\ toDrop' = Tail(toDrop)
  /\ UNCHANGED <<mode, pc, idx, listener, procVars, conn, worker, runPerms, permsArg, wpc, wperms, registeredWith, wire, peerClosed, sent, collectVars, sweepVars, error>>

\* dropWorkerPermissions returns
WorkerDropEnd ==
  /\ WorkerAlive /\ wpc = "dropping" /\ toDrop = <<>>
  /\ wpc' = "dropped"
  /\ UNCHANGED <<mode, pc, idx, listener, procVars, conn, worker, runPerms, permsArg, wperms, toDrop, held, registeredWith, wire, peerClosed, sent, collectVars, sweepVars, error>>

\* await registerUnitTests(): the tests matching the process permissions
WorkerRegister ==
  /\ WorkerAlive /\ wpc = "dropped"
  /\ registeredWith' = <<held>>
  /\ wpc' = "registered"
  /\ UNCHANGED <<mode, pc, idx, listener, procVars, conn, worker, runPerms, permsArg, wperms, toDrop, held, wire, peerClosed, sent, collectVars, sweepVars, error>>

\* Deno.runTests({... onMessage: reportToConn.bind(null, conn)}) begins
WorkerRunTests ==
  /\ WorkerAlive /\ wpc = "registered"
  /\ wpc' = "running"
  /\ UNCHANGED <<mode, pc, idx, listener, procVars, conn, worker, runPerms, permsArg, wperms, toDrop, held, registeredWith, wire, peerClosed, sent, collectVars, sweepVars, error>>

\* the running tests report one line; a crashing test may leave any
\* sequence of lines, the last of them possibly truncated
WorkerEmit(line) ==
  /\ WorkerAlive /\ wpc = "running" /\ sent < MaxMsgs
  /\ wire' = Append(wire, line)
  /\ sent' = sent + 1
  /\ UNCHANGED <<mode, pc, idx, listener, procVars, conn, worker, workerVars, peerClosed, collectVars, sweepVars, error>>

\* the worker's end of the connection closes while the process is still
\* running (runTests is over, the process has not exited yet)
WorkerCloseConn ==
  /\ WorkerAlive /\ wpc = "running"
  /\ peerClosed' = TRUE
  /\ wpc' = "closing"
  /\ UNCHANGED <<mode, pc, idx, listener, procVars, conn, worker, runPerms, permsArg, wperms, toDrop, held, registeredWith, wire, sent, collectVars, sweepVars, error>>

\* the worker process exits: normally once the tests run, abnormally at
\* any time; its end of the connection closes with it at the latest
WorkerExit(success) ==
  /\ WorkerAlive
  /\ success => wpc \in {"running", "closing"}
  /\ procState' = [procState EXCEPT ![idx] = "exited"]
  /\ procSuccess' = [procSuccess EXCEPT ![idx] = success]
  /\ peerClosed' = (conn[idx] # "none")
  /\ wpc' = "exited"
  /\ UNCHANGED <<mode, pc, idx, listener, procWaited, procHandle, conn, worker, runPerms, permsArg, wperms, toDrop, held, registeredWith, wire, sent, collectVars, sweepVars, error>>

\* ------------------------------------------------ the threaded runner
ThreadedBegin ==
  /\ pc = "main" /\ mode = "threaded"
  /\ pc' = "loop"
  /\ UNCHANGED <<mode, idx, listener, procVars, conn, worker, workerVars, wire, peerClosed, sent, collectVars, sweepVars, error>>

\* runTestsInThreadForPermissionSet up to "await resolvable"
ThreadSpawn ==
  /\ pc = "loop" /\ mode = "threaded" /\ idx <= NumSets
  /\ runPerms' = permissionCombinations[idx]
  /\ runLog' = Append(runLog, fmtPerms(runPerms'))
  /\ worker' = [worker EXCEPT ![idx] = "running"]
  /\ permsArg' = PermStr(runPerms')
  /\ wire' = <<>> /\ sent' = 0
  /\ expectedPassedTests' = <<>> /\ endMessage' = <<>> /\ reported' = <<>>
  /\ pc' = "await"
  /\ UNCHANGED <<mode, idx, listener, procVars, conn, wpc, wperms, toDrop, held, registeredWith, peerClosed, testResults, summary, outcome, error>>

\* the Worker posts one message on its channel
WorkerPost(message) ==
  /\ mode = "threaded" /\ idx <= NumSets /\ worker[idx] = "running" /\ sent < MaxMsgs
  /\ wire' = Append(wire, message)
  /\ sent' = sent + 1
  /\ UNCHANGED <<mode, pc, idx, listener, procVars, conn, worker, workerVars, peerClosed, collectVars, sweepVars, error>>

\* worker.onmessage
OnMessage ==
  /\ pc = "await" /\ wire # <<>>
  /\ wire' = Tail(wire)
  /\ reported' = Report(reported, Head(wire))
  /\ expectedPassedTests' = RecordStart(Head(wire), expectedPassedTests)
  /\ endMessage' = RecordEnd(Head(wire), endMessage)
  /\ IF TerminatesOn(Head(wire))
       THEN /\ worker' = [worker EXCEPT ![idx] = "terminated"]
            /\ pc' = "resolved"
       ELSE UNCHANGED <<worker, pc>>
  /\ UNCHANGED <<mode, idx, listener, procVars, conn, workerVars, peerClosed, sent, sweepVars, error>>

\* "await resolvable" resumes: the two checks, the result, and
\* testResults.add(result)
ThreadResume ==
  /\ pc = "resolved"
  /\ IF StreamCheck(expectedPassedTests, endMessage) # "none"
       THEN /\ Throw(StreamCheck(expectedPassedTests, endMessage))
            /\ UNCHANGED <<testResults, idx>>
       ELSE /\ testResults' = Append(testResults, Verdict(runPerms, expectedPassedTests, endMessage))
            /\ idx' = idx + 1
            /\ pc' = "loop"
            /\ UNCHANGED <<error, outcome>>
  /\ UNCHANGED <<mode, listener, procVars, conn, worker, workerVars, wire, peerClosed, sent, collectVars, runLog, summary>>

Next ==
  \/ MasterBegin
  \/ Spawn
  \/ Accept
  \/ ReadLine
  \/ ReadEOF
  \/ Status
  \/ Summarize
  \/ WorkerConnect
  \/ WorkerDropBegin
  \/ WorkerRevoke
  \/ WorkerDropEnd
  \/ WorkerRegister
  \/ WorkerRunTests
  \/ \E line \in Lines : WorkerEmit(line)
  \/ WorkerCloseConn
  \/ \E success \in BOOLEAN : WorkerExit(success)
  \/ ThreadedBegin
  \/ ThreadSpawn
  \/ \E message \in Messages : WorkerPost(message)
  \/ OnMessage
  \/ ThreadResume

Spec == Init /\ [][Next]_vars

\* ------------------------------------------------------------ properties
HasKind(seq, kind) == \E k \in 1..Len(seq) : seq[k].kind = kind

LastOfKind(seq, kind) == seq[CHOOSE k \in 1..Len(seq) : seq[k].kind = kind /\ \A j \in (k + 1)..Len(seq) : seq[j].kind # kind]

\* the run that just returned its result to the runner's loop
JustReturned == pc = "loop" /\ idx > 1

\* C1: a run that delivered Start and End (and, in the process variant,
\* whose worker exited successfully) returns passed = TRUE exactly when the
\* number of tests declared in Start equals End.passed + End.ignored.
C1_PassedIffCountsMatch ==
  JustReturned =>
    /\ HasKind(reported, "start") /\ HasKind(reported, "end")
    /\ mode = "master" => procSuccess[idx - 1]
    /\ testResults[idx - 1].passed <=>
         (LastOfKind(reported, "start").tests = LastOfKind(reported, "end").passed + LastOfKind(reported, "end").ignored)

C1_Witness ==
  /\ JustReturned /\ mode = "master" /\ Len(testResults) = 2
  /\ testResults[1].passed /\ testResults[1].endMessage.ignored = 1
  /\ ~testResults[2].passed

\* the stream of the current run was Start, then only TestStart / TestEnd
\* messages, and it has ended without an End
CrashedAfterStart ==
  /\ mode = "master" /\ idx <= NumSets
  /\ conn[idx] = "closed" /\ wire = <<>> /\ error # "SyntaxError"
  /\ Len(reported) >= 1 /\ reported[1].kind = "start"
  /\ \A k \in 2..Len(reported) : reported[k].kind \in {"testStart", "testEnd"}

\* C2: a process run that emits Start, then TestStart / TestEnd messages,
\* and closes without End produces a verdict with passed = FALSE (and
\* never one with passed = TRUE).
C2_MissingEndGivesFailedVerdict ==
  CrashedAfterStart => (Len(testResults) >= idx /\ ~testResults[idx].passed)

\* run i has been started by the runner
Started(i) == IF mode = "master" THEN procState[i] # "none" ELSE worker[i] # "none"

\* C3: an error in run i is downgraded to a failed verdict for set i, and
\* the overall outcome is reported only after every later set was run.
C3_ErrorDowngradedAndSweepContinues ==
  /\ error # "none" => (Len(testResults) >= idx /\ ~testResults[idx].passed)
  /\ outcome # "running" => \A i \in Runs : Started(i) /\ Len(testResults) >= i

\* the current process run had a clean Start / End pair with matching
\* counts and its worker exited with a non-zero status
AbendAfterCleanStream ==
  /\ mode = "master" /\ idx <= NumSets
  /\ procWaited[idx] /\ ~procSuccess[idx]
  /\ HasKind(reported, "start") /\ HasKind(reported, "end")
  /\ LastOfKind(reported, "start").tests = LastOfKind(reported, "end").passed + LastOfKind(reported, "end").ignored

\* C4: a non-zero exit status after a clean, matching Start / End pair
\* produces a verdict with passed = FALSE.
C4_AbendGivesFailedVerdict ==
  AbendAfterCleanStream => (Len(testResults) >= idx /\ ~testResults[idx].passed)

\* C5: the overall outcome is success (exit code 0) exactly when every
\* permission combination has a verdict with passed = TRUE; a run that
\* failed for any reason makes the outcome non-zero.
C5_SuccessIffAllPassed ==
  /\ outcome # "running" =>
       ((outcome = "passed" /\ ExitCode = 0) <=> (Len(testResults) = NumSets /\ \A k \in 1..Len(testResults) : testResults[k].passed))
  /\ error # "none" => (outcome = "uncaught" /\ ExitCode # 0)
  /\ outcome = "failed" => ExitCode # 0

C5_Witness ==
  /\ outcome = "failed" /\ Len(testResults) = NumSets
  /\ testResults[1].passed /\ ~testResults[NumSets].passed

\* control has left runTestsForPermissionSet for run i
LeftRun(i) == mode = "master" /\ procState[i] # "none" /\ (i < idx \/ pc = "uncaught")

\* C6: every exit path of a process run leaves the connection closed, the
\* worker process waited on and its handle released.
C6_TornDownOnEveryExitPath ==
  \A i \in Runs : LeftRun(i) => (conn[i] = "closed" /\ procWaited[i] /\ procHandle[i] = "closed")

\* run i has a live execution context
Live(i) == procState[i] = "running" \/ conn[i] \in {"pending", "open"} \/ worker[i] = "running"

\* run i has been drained and torn down
TornDown(i) ==
  /\ Len(testResults) >= i
  /\ IF mode = "master" THEN conn[i] = "closed" /\ procState[i] = "exited" ELSE worker[i] = "terminated"

\* C7: at most one execution context is live, and run i+1 is spawned only
\* after run i was drained, its connection closed and its process exited
\* (its worker terminated).
C7_StrictlySequential ==
  /\ Cardinality({i \in Runs : Live(i)}) <= 1
  /\ \A i \in Runs : (i > 1 /\ Started(i)) => TornDown(i - 1)

C7_Witness ==
  /\ mode = "master" /\ procState[2] = "running" /\ conn[2] = "open"
  /\ procState[1] = "exited" /\ conn[1] = "closed"

\* the capabilities of the fixed set that are not in the worker's list
NotGranted == {p \in PermNames : ~Includes(wperms, p)}

\* the capabilities named in the worker's list
Granted == {p \in PermNames : Includes(wperms, p)}

\* the worker process has registered its tests (or gone further)
Registered == mode = "master" /\ registeredWith # <<>>

\* C8: the downgrade completes before registerUnitTests and before any
\* test runs, it revokes every capability that is not granted, and it
\* never adds a capability.
C8_StateAfterDrop ==
  /\ Registered => (toDrop = <<>> /\ held \cap NotGranted = {} /\ registeredWith[1] \cap NotGranted = {})
  /\ (mode = "master" /\ sent > 0) => Registered

C8_DropBeforeRegisterAndOnlyNarrows == [](C8_StateAfterDrop) /\ [][wpc' # "init" => held' \subseteq held]_vars

C8_Witness == wpc = "running" /\ sent > 0 /\ idx = 2 /\ held = {"read"} /\ registeredWith = <<{"read"}>>

\* the worker process has completed its capability downgrade
Downgraded == wpc \in {"dropped", "registered", "running", "closing"}

\* C9 as stated: the connection to the runner is opened only after the
\* capability downgrade has completed.
C9_ConnectOnlyAfterDowngrade ==
  (mode = "master" /\ idx <= NumSets /\ conn[idx] \in {"pending", "open"} /\ wpc # "exited") => Downgraded

\* C9 amended: the worker connects first, then downgrades to exactly the
\* granted set, then registers and reports: the downgrade begins only on an
\* opened connection and is complete before any test is registered or any
\* message is emitted.
C9_ConnectThenDowngradeThenReport ==
  /\ (mode = "master" /\ idx <= NumSets /\ wpc \in {"dropping", "dropped", "registered", "running", "closing"}) => conn[idx] # "none"
  /\ (mode = "master" /\ (registeredWith # <<>> \/ sent > 0)) =>
       (toDrop = <<>> /\ held = Granted /\ registeredWith = <<Granted>>)

C9_Witness == mode = "master" /\ idx = 2 /\ conn[2] = "open" /\ sent > 0 /\ held = {"read"}

\* C10: the combinations are run in the generator's order and, after the
\* loop, there is one verdict and one summary line per combination, in
\* that order, whichever runs passed.
C10_OneVerdictAndSummaryPerSetInOrder ==
  /\ \A k \in 1..Len(runLog) : runLog[k] = fmtPerms(permissionCombinations[k])
  /\ \A k \in 1..Len(testResults) : testResults[k].perms = permissionCombinations[k]
  /\ pc = "done" =>
       /\ Len(runLog) = NumSets /\ Len(testResults) = NumSets
       /\ summary = [k \in 1..NumSets |-> fmtPerms(permissionCombinations[k])]

C10_Witness ==
  /\ pc = "done" /\ Len(summary) = NumSets
  /\ ~testResults[1].passed /\ testResults[NumSets].passed

\* the summary printed for result k tells whether that run passed
SummaryMarksFailure(k) == SummaryBlock(testResults[k]) # SummaryBlock([testResults[k] EXCEPT !.passed = TRUE])

\* C11: every failed run is reported with a diagnostic naming the failing
\* combination and its cause; when the sweep ends in failure the printed
\* summary identifies each failing combination.
C11_FailedRunIsIdentified ==
  /\ outcome = "failed" => \A k \in 1..Len(testResults) : ~testResults[k].passed => SummaryMarksFailure(k)
  /\ (outcome # "running" /\ outcome # "passed") => error # "none"

\* an End message was reported before any Start message
EndBeforeStart(seq) == \E e \in 1..Len(seq) : seq[e].kind = "end" /\ \A j \in 1..e : seq[j].kind # "start"

\* C12: a run whose stream delivers End before any Start never gets
\* passed = TRUE, even if a Start with a matching count arrives later.
C12_EndBeforeStartNeverPasses ==
  (JustReturned /\ EndBeforeStart(reported)) => ~testResults[idx - 1].passed

\* C13: in the process variant, once an End was observed no later message
\* of the connection is decoded, reported, or changes the recorded values.
C13_StopsAtFirstEnd ==
  [][(mode = "master" /\ pc = "read" /\ endMessage # <<>>) => (reported' = reported /\ expectedPassedTests' = expectedPassedTests /\ endMessage' = endMessage)]_vars

\* C14: the listener is opened once before the first run and is closed
\* when masterRunnerMain finishes, with success or failure.
C14_ListenerClosedAtEnd ==
  /\ (mode = "master" /\ pc \in {"done", "uncaught"}) => listener = "closed"
  /\ (mode = "master" /\ pc \notin {"main", "done", "uncaught"}) => listener = "open"

\* C15: an undecodable line ends the run's collection at that line: it is
\* not reported, the connection is closed, no later line is consumed, the
\* run is not started again and no verdict is recorded for it.
C15_StateAfterBadLine ==
  /\ \A k \in 1..Len(reported) : reported[k].kind # "malformed"
  /\ error = "SyntaxError" => (mode = "master" /\ conn[idx] = "closed" /\ Len(testResults) < idx /\ outcome = "uncaught")

C15_BadLineStep ==
  /\ (pc = "read" /\ wire # <<>> /\ Head(wire).kind = "malformed" /\ wire' = Tail(wire)) => error' = "SyntaxError"
  /\ error = "SyntaxError" => (Len(wire') >= Len(wire) /\ UNCHANGED <<reported, expectedPassedTests, endMessage, testResults, runLog, conn>>)

C15_MalformedLineEndsRun == [](C15_StateAfterBadLine) /\ [][C15_BadLineStep]_vars

C15_Witness == error = "SyntaxError" /\ wire # <<>> /\ HasKind(reported, "start") /\ conn[idx] = "closed"

\* the runner is suspended inside the current run
Waiting == pc \in {"accept", "read", "status", "await"}

\* C16: there is no timeout: while a run has not finished, no verdict is
\* recorded for its combination, no later combination is started and no
\* final outcome is reached; the runner leaves a suspension point only on
\* the worker's event it waits for.
C16_StateWhileWaiting ==
  Waiting => (Len(testResults) = idx - 1 /\ outcome = "running" /\ \A i \in Runs : i > idx => ~Started(i))

C16_LeavesOnlyOnWorkerEvent ==
  /\ (pc = "accept" /\ pc' # "accept") => conn[idx] = "pending"
  /\ (pc = "read" /\ pc' # "read") => ((wire = <<>> /\ peerClosed) \/ (wire # <<>> /\ Head(wire).kind = "malformed"))
  /\ (pc = "status" /\ pc' # "status") => procState[idx] = "exited"
  /\ (pc = "await" /\ pc' # "await") => (wire # <<>> /\ Head(wire).kind = "end")

C16_NoTimeout == [](C16_StateWhileWaiting) /\ [][C16_LeavesOnlyOnWorkerEvent]_vars

C16_Witness == mode = "master" /\ pc = "accept" /\ idx = 1 /\ procState[1] = "exited" /\ conn[1] = "none" /\ testResults = <<>>

\* C17: after the stream of a process run ends the checks are made in the
\* order missing start, missing end, exit status.
C17_CheckOrder ==
  (mode = "master" /\ idx <= NumSets /\ conn[idx] = "closed" /\ error # "SyntaxError") =>
    IF ~HasKind(reported, "start") THEN error = "Worker runner didn't report start"
    ELSE IF ~HasKind(reported, "end") THEN error = "Worker runner didn't report end"
    ELSE /\ error \in {"none", "Worker runner exited with status code"}
         /\ error = "Worker runner exited with status code" <=> (procWaited[idx] /\ ~procSuccess[idx])

C17_Witness ==
  /\ error = "Worker runner didn't report start" /\ mode = "master"
  /\ HasKind(reported, "end") /\ procState[idx] = "exited" /\ ~procSuccess[idx]

\* the threaded run of the current combination has resolved
ThreadRunOver == mode = "threaded" /\ (pc = "resolved" \/ (pc = "uncaught" /\ error # "none") \/ JustReturned)

\* C18: a threaded run returns or throws only after an End message, the
\* first one; the worker is terminated by then, and nothing delivered
\* afterwards changes the recorded count or End summary.
C18_StateAfterEnd ==
  ThreadRunOver =>
    /\ reported # <<>> /\ reported[Len(reported)].kind = "end"
    /\ \A k \in 1..(Len(reported) - 1) : reported[k].kind # "end"
    /\ endMessage = <<reported[Len(reported)]>>
    /\ worker[IF JustReturned THEN idx - 1 ELSE idx] = "terminated"
    /\ JustReturned => testResults[idx - 1].endMessage = reported[Len(reported)]

C18_TerminatedAtFirstEnd == [](C18_StateAfterEnd) /\ [][(mode = "threaded" /\ endMessage # <<>> /\ pc' # "await") => UNCHANGED <<expectedPassedTests, endMessage, reported>>]_vars

C18_Witness == mode = "threaded" /\ JustReturned /\ wire # <<>> /\ worker[idx - 1] = "terminated"

\* ---------------------------------------------- the grant list round trip
\* a worker process just spawned for an arbitrary Permissions object
InitPerms ==
  /\ mode = "master"
  /\ pc = "accept"
  /\ idx = 1
  /\ listener = "open"
  /\ procState = [i \in Runs |-> IF i = 1 THEN "running" ELSE "none"]
  /\ procSuccess = [i \in Runs |-> TRUE]
  /\ procWaited = [i \in Runs |-> FALSE]
  /\ procHandle = [i \in Runs |-> IF i = 1 THEN "open" ELSE "none"]
  /\ conn = [i \in Runs |-> "none"]
  /\ worker = [i \in Runs |-> "none"]
  /\ runPerms \in SUBSET PermNames
  /\ permsArg = PermStr(runPerms)
  /\ wpc = "init"
  /\ wperms = <<>>
  /\ toDrop = <<>>
  /\ held = PermNames
  /\ registeredWith = <<>>
  /\ wire = <<>>
  /\ peerClosed = FALSE
  /\ sent = 0
  /\ expectedPassedTests = <<>>
  /\ endMessage = <<>>
  /\ reported = <<>>
  /\ runLog = <<fmtPerms(runPerms)>>
  /\ testResults = <<>>
  /\ summary = <<>>
  /\ error = "none"
  /\ outcome = "running"

NextPerms ==
  \/ WorkerConnect
  \/ WorkerDropBegin
  \/ WorkerRevoke
  \/ WorkerDropEnd
  \/ WorkerRegister

SpecPerms == InitPerms /\ [][NextPerms]_vars

\* C19: the --perms string built by spawnWorkerRunner parses back to
\* exactly the names that are true in the set (none for an all-false set),
\* so the worker keeps exactly those capabilities after the drop.
C19_GrantListRoundTrip ==
  /\ wpc # "init" => wperms = SelectSeq(PERMISSIONS, LAMBDA p : p \in runPerms)
  /\ wpc \in {"dropped", "registered"} => (held = runPerms /\ toDrop = <<>>)

C19_Witness == wpc = "registered" /\ runPerms = {"read", "net"} /\ held = {"read", "net"} /\ Len(wperms) = 2

\* C20: each decoded message is reported when it is consumed, one at a
\* time and in order, before the next one is consumed and before the
\* verdict is computed; a run has as many reports as decoded messages.
C20_ReportCount ==
  /\ error # "SyntaxError" => Len(reported) + Len(wire) = sent
  /\ error = "SyntaxError" => Len(reported) + Len(wire) + 1 = sent

C20_ReportStep ==
  (pc \in {"read", "await"} /\ wire # <<>> /\ wire' = Tail(wire) /\ Head(wire).kind # "malformed") =>
    (reported' = Append(reported, Head(wire)) /\ testResults' = testResults)

C20_ReportedAsConsumed == [](C20_ReportCount) /\ [][C20_ReportStep]_vars

C20_Witness == JustReturned /\ mode = "master" /\ Len(reported) = 3 /\ reported[1].kind = "start" /\ reported[3].kind = "end"

\* ------------------------------------------------------------ termination
\* the runtime keeps running whatever is ready: the runner's continuations
\* and the workers (which connect, report, close and exit) are never
\* suspended forever while one of them can take a step
SpecLive == Spec /\ WF_vars(Next)

\* every spawned worker connects before it exits, a threaded worker sends
\* End among its messages, and no run has thrown (each reported Start and
\* End, with a successful exit status)
WorkersBehave ==
  /\ error = "none"
  /\ \A i \in Runs : procState[i] = "exited" => conn[i] # "none"
  /\ (mode = "threaded" /\ pc = "await" /\ sent = MaxMsgs) => HasKind(wire, "end")

\* the sweep is over: every combination was run once and one of the two
\* final lines was printed
SweepFinished ==
  /\ pc = "done" /\ outcome \in {"passed", "failed"}
  /\ Len(runLog) = NumSets /\ Len(testResults) = NumSets /\ Len(summary) = NumSets
  /\ \A i \in Runs : Started(i)

\* C21: if the workers behave (connect, report Start and End, close, exit
\* successfully; send End in the threaded variant) the sweep terminates:
\* every combination is run exactly once and the runner reaches "Unit
\* tests passed" or "Unit tests failed".
C21_SweepTerminates == [](WorkersBehave) => <>(SweepFinished)

C21_Witness == SweepFinished /\ error = "none" /\ testResults[1].passed /\ ~testResults[NumSets].passed

\* C22: a run in which every declared test reported an outcome and at
\* least one failed gets passed = FALSE; the declared count is that of the
\* last Start message received.
C22_FailedTestNeverHidden ==
  JustReturned =>
    LET declared == LastOfKind(reported, "start").tests
        result == testResults[idx - 1]
        end == result.endMessage
    IN  (end.passed + end.failed + end.ignored = declared /\ end.failed > 0) => ~result.passed

C22_Witness ==
  /\ JustReturned /\ Len(reported) = 3
  /\ reported[1] = StartMsg(0) /\ reported[2] = StartMsg(1) /\ reported[3] = EndMsg(0, 1, 0)
  /\ ~testResults[idx - 1].passed

====
